---- MODULE Spec2Model ----
(***************************************************************************)
(* React hooks demo (src/src/App.jsx): ThemeProvider / useTheme,           *)
(* useCounter, EffectExample, CustomHookExample, ThemeExample, AppContent. *)
(*                                                                         *)
(* A state cell (useState) is modelled by two variables: the cell itself   *)
(* (the value the next render will read, written by the setter) and the    *)
(* value the latest render captured in its closures.  Event handlers read  *)
(* the captured value, never the cell.  A render pass copies cells into    *)
(* closures, decides which effects run, and leaves them pending; the       *)
(* passive effects are flushed afterwards and always before the next       *)
(* render pass or the unmount.                                             *)
(***************************************************************************)
EXTENDS Integers, Sequences, FiniteSets, TLC

\* ------------------------------------------------------------- bounds
MaxCalls == 3       \* calls of increment/decrement/reset on the hook
MaxClicks == 2      \* clicks of EffectExample's Increment button
MaxTicks == 2       \* runs of the interval callback
MaxToggles == 2     \* calls of toggleTheme

\* Arguments an owner passes to useCounter; CustomHookExample passes 5.
InitialValues == {0, 5}

Ops == {"increment", "decrement", "reset"}
Effects_noTimer == {"title", "log"}
Effects == {"title", "log", "timer"}

VARIABLES
    status,         \* "uninitialized" | "mounted" | "unmounted" (the App tree)
    syncPending,    \* a click handler has run and its synchronous re-render has not
    \* ThemeProvider
    isDarkCell,     \* useState(false) cell
    isDark,         \* isDark captured by the provider's latest render
    themeDirty,     \* the provider has an update to render
    appIsDark,      \* isDark read by AppContent at its latest render
    themeIsDark,    \* isDark read by ThemeExample at its latest render
    toggles,        \* number of toggleTheme calls so far
    \* useCounter instance owned by CustomHookExample
    hookArg,        \* the argument the owner passes to useCounter
    mountArg,       \* the argument of the first render
    countCell,      \* useState(initialValue) cell
    count,          \* count captured by the latest render
    initialValue,   \* initialValue parameter captured by the latest render
    hDirty,         \* the owner has an update to render
    ops,            \* operations called since the owner's latest render
    log,            \* the last two calls: [op, from], from = the cell before it
    calls,          \* number of hook operation calls so far
    \* EffectExample
    eCountCell,     \* useState(0) cell
    eCount,         \* count captured by the latest render
    timeCell,       \* useState(new Date()) cell
    time,           \* time captured by the latest render
    eDirty,         \* EffectExample has an update to render
    now,            \* the clock new Date() reads, in ticks
    pendingEffects, \* effects of the latest commit that have not run yet
    title,          \* document.title
    timer,          \* handle captured by the timer effect's cleanup (0: none)
    activeTimers,   \* handles of the intervals that are set and not cleared
    nextHandle,     \* the handle the next setInterval returns
    eRenders,       \* committed renders of EffectExample
    changedRenders, \* re-renders whose count differs from the previous render's
    titleWrites,    \* runs of the title effect
    logRuns,        \* runs of the logging effect
    registrations,  \* setInterval calls
    clears,         \* clearInterval calls
    callbackRuns,   \* runs of the interval callback
    clicks,         \* clicks of the Increment button
    \* a theme consumer rendered with no ThemeProvider above it
    outside         \* [consumer, outcome, shown] of its latest render

themeVars == <<isDarkCell, isDark, themeDirty, appIsDark, themeIsDark, toggles>>
hookVars == <<hookArg, mountArg, countCell, count, initialValue, hDirty, ops, log, calls>>
effectVars == <<eCountCell, eCount, timeCell, time, eDirty, now, pendingEffects, title,
                timer, activeTimers, nextHandle, eRenders, changedRenders, titleWrites,
                logRuns, registrations, clears, callbackRuns, clicks>>
vars == <<status, syncPending, themeVars, hookVars, effectVars, outside>>

\* ------------------------------------------------------------ closures

\* ThemeProvider.toggleTheme: setIsDark(!isDark), isDark the captured value.
toggleTheme_stuck(d) == TRUE
toggleTheme(d) == ~d

\* useCounter: the value each operation hands to setCount, from the captured
\* count c and the captured parameter init.
increment(c) == c + 1
decrement_by2(c) == c - 2
decrement(c) == c - 1
reset_zero(c, init) == 0
reset(c, init) == init

Apply(op, c, init) ==
    CASE op = "increment" -> increment(c)
      [] op = "decrement" -> decrement(c)
      [] op = "reset" -> reset(c, init)

\* The document title the title effect writes for a captured count c.
TitleText(c) == "Count: " \o ToString(c)

\* new Date(): an object distinct from every earlier one, showing the clock.
NewDate(t) == t

\* clearInterval(h) on the set of active intervals.
ClearInterval_noop(S, h) == S
ClearInterval(S, h) == S \ {h}

\* ------------------------------------------------------------- context
\* A value a context read can give: undefined, or the provider's object.
Undefined == [defined |-> FALSE]
ProviderValue(d) == [defined |-> TRUE, isDark |-> d]

\* createContext(): no default value is given, so the default is undefined.
ThemeContextDefault_light == ProviderValue(FALSE)
ThemeContextDefault == Undefined

\* useTheme: useContext(ThemeContext) gives the nearest provider's value, or
\* the context's default when no provider is above the caller.
useTheme(provided, value) == IF provided THEN value ELSE ThemeContextDefault

\* A consumer's render: const { isDark } = useTheme() throws a TypeError on
\* undefined; otherwise the render goes on and shows the theme.
Consumers == {"ThemeExample", "AppContent"}
ThemeLabel(c, d) ==
    IF c = "ThemeExample"
    THEN (IF d THEN "Dark" ELSE "Light")
    ELSE (IF d THEN "app dark" ELSE "app light")
ConsumerRender(c, ctx) ==
    IF ctx.defined
    THEN [consumer |-> c, outcome |-> "rendered", shown |-> ThemeLabel(c, ctx.isDark)]
    ELSE [consumer |-> c, outcome |-> "TypeError", shown |-> "nothing"]
NotRendered == [consumer |-> "none", outcome |-> "none", shown |-> "nothing"]

\* ------------------------------------------------------------- effects
\* The dependency argument of each useEffect call for a captured count c:
\* no array (has = FALSE), [count], [].
NoDeps == [has |-> FALSE, vals |-> <<>>]
Deps(s) == [has |-> TRUE, vals |-> s]

TitleDeps_count(c) == Deps(<<c>>)
TitleDeps_once(c) == Deps(<<>>)
TitleDeps(c) == NoDeps
LogDeps_none(c) == NoDeps
LogDeps(c) == Deps(<<c>>)
TimerDeps_none(c) == NoDeps
TimerDeps_count(c) == Deps(<<c>>)
TimerDeps(c) == Deps(<<>>)

EffectDeps(e, c) ==
    CASE e = "title" -> TitleDeps(c)
      [] e = "log" -> LogDeps(c)
      [] e = "timer" -> TimerDeps(c)

\* useEffect: an effect runs after a re-render when it has no dependency
\* array or one of its dependencies differs from the previous render's.
ShouldRun(prev, next) == ~next.has \/ prev.vals # next.vals

\* The last two calls of the hook's operations.
Window(s) == IF Len(s) > 2 THEN SubSeq(s, Len(s) - 1, Len(s)) ELSE s

\* ---------------------------------------------------------------- Init
Init ==
    /\ status = "uninitialized"
    /\ syncPending = FALSE
    /\ isDarkCell = FALSE /\ isDark = FALSE /\ themeDirty = FALSE
    /\ appIsDark = FALSE /\ themeIsDark = FALSE /\ toggles = 0
    /\ hookArg \in InitialValues
    /\ mountArg = hookArg
    /\ countCell = hookArg /\ count = hookArg /\ initialValue = hookArg
    /\ hDirty = FALSE /\ ops = <<>> /\ log = <<>> /\ calls = 0
    /\ eCountCell = 0 /\ eCount = 0
    /\ timeCell = NewDate(0) /\ time = NewDate(0)
    /\ eDirty = FALSE /\ now = 0
    /\ pendingEffects = {}
    /\ title = ""
    /\ timer = 0 /\ activeTimers = {} /\ nextHandle = 1
    /\ eRenders = 0 /\ changedRenders = 0 /\ titleWrites = 0 /\ logRuns = 0
    /\ registrations = 0 /\ clears = 0 /\ callbackRuns = 0 /\ clicks = 0
    /\ outside = NotRendered

\* ------------------------------------------------------------- actions

\* First render of <App/>: every component renders once and every effect of
\* EffectExample is scheduled.
Mount ==
    /\ status = "uninitialized"
    /\ status' = "mounted"
    /\ isDark' = isDarkCell /\ appIsDark' = isDarkCell /\ themeIsDark' = isDarkCell
    /\ count' = countCell /\ initialValue' = hookArg /\ mountArg' = hookArg
    /\ eCount' = eCountCell /\ time' = timeCell
    /\ eRenders' = eRenders + 1
    /\ pendingEffects' = Effects
    /\ UNCHANGED <<syncPending, isDarkCell, themeDirty, toggles, hookArg, countCell,
                   hDirty, ops, log, calls, eCountCell, timeCell, eDirty, now, title,
                   timer, activeTimers, nextHandle, changedRenders, titleWrites,
                   logRuns, registrations, clears, callbackRuns, clicks>>
    /\ UNCHANGED outside

\* A render pass in which a provider update remounts the components under
\* AppContent, so that their state cells start again from their initial values.
Render_remount ==
    /\ status = "mounted"
    /\ pendingEffects = {}
    /\ themeDirty \/ hDirty \/ eDirty
    /\ syncPending' = FALSE
    /\ themeDirty' = FALSE /\ hDirty' = FALSE /\ eDirty' = FALSE
    /\ IF themeDirty
       THEN /\ isDark' = isDarkCell
            /\ appIsDark' = isDarkCell
            /\ themeIsDark' = isDarkCell
            /\ countCell' = hookArg
            /\ eCountCell' = 0
       ELSE UNCHANGED <<isDark, appIsDark, themeIsDark, countCell, eCountCell>>
    /\ IF themeDirty \/ hDirty
       THEN /\ count' = countCell'
            /\ initialValue' = hookArg
            /\ ops' = <<>>
       ELSE UNCHANGED <<count, initialValue, ops>>
    /\ IF themeDirty \/ eDirty
       THEN /\ eCount' = eCountCell'
            /\ time' = timeCell
            /\ eRenders' = eRenders + 1
            /\ changedRenders' = changedRenders + (IF eCountCell' # eCount THEN 1 ELSE 0)
            /\ pendingEffects' =
                  {e \in Effects :
                      ShouldRun(EffectDeps(e, eCount), EffectDeps(e, eCountCell'))}
       ELSE UNCHANGED <<eCount, time, eRenders, changedRenders, pendingEffects>>
    /\ UNCHANGED <<status, isDarkCell, toggles, hookArg, mountArg, log,
                   calls, timeCell, now, title, timer, activeTimers,
                   nextHandle, titleWrites, logRuns, registrations, clears,
                   callbackRuns, clicks>>
    /\ UNCHANGED outside

\* One render pass and its commit.  A provider update re-renders the whole
\* tree under it (the context value is a new object, and AppContent's
\* children are not memoised); otherwise each component with an update
\* re-renders.  Pending passive effects are flushed before a pass starts.
Render ==
    /\ status = "mounted"
    /\ pendingEffects = {}
    /\ themeDirty \/ hDirty \/ eDirty
    /\ syncPending' = FALSE
    /\ themeDirty' = FALSE /\ hDirty' = FALSE /\ eDirty' = FALSE
    /\ IF themeDirty
       THEN /\ isDark' = isDarkCell
            /\ appIsDark' = isDarkCell
            /\ themeIsDark' = isDarkCell
       ELSE UNCHANGED <<isDark, appIsDark, themeIsDark>>
    /\ IF themeDirty \/ hDirty
       THEN /\ count' = countCell
            /\ initialValue' = hookArg
            /\ ops' = <<>>
       ELSE UNCHANGED <<count, initialValue, ops>>
    /\ IF themeDirty \/ eDirty
       THEN /\ eCount' = eCountCell
            /\ time' = timeCell
            /\ eRenders' = eRenders + 1
            /\ changedRenders' = changedRenders + (IF eCountCell # eCount THEN 1 ELSE 0)
            /\ pendingEffects' =
                  {e \in Effects :
                      ShouldRun(EffectDeps(e, eCount), EffectDeps(e, eCountCell))}
       ELSE UNCHANGED <<eCount, time, eRenders, changedRenders, pendingEffects>>
    /\ UNCHANGED <<status, isDarkCell, toggles, hookArg, mountArg, countCell, log,
                   calls, eCountCell, timeCell, now, title, timer, activeTimers,
                   nextHandle, titleWrites, logRuns, registrations, clears,
                   callbackRuns, clicks>>
    /\ UNCHANGED outside

\* The passive effects of the latest commit run: the title effect, the
\* logging effect, the timer effect (after the cleanup of its previous run,
\* when it has one).  They run on their own or, when a click has scheduled a
\* render pass first, right before that pass.
FlushEffects ==
    /\ status = "mounted"
    /\ pendingEffects # {}
    /\ pendingEffects' = {}
    /\ IF "title" \in pendingEffects
       THEN title' = TitleText(eCount) /\ titleWrites' = titleWrites + 1
       ELSE UNCHANGED <<title, titleWrites>>
    /\ IF "log" \in pendingEffects
       THEN logRuns' = logRuns + 1
       ELSE UNCHANGED logRuns
    /\ IF "timer" \in pendingEffects
       THEN /\ timer' = nextHandle
            /\ nextHandle' = nextHandle + 1
            /\ registrations' = registrations + 1
            /\ IF timer # 0
               THEN /\ activeTimers' = ClearInterval(activeTimers, timer) \cup {nextHandle}
                    /\ clears' = clears + 1
               ELSE /\ activeTimers' = activeTimers \cup {nextHandle}
                    /\ UNCHANGED clears
       ELSE UNCHANGED <<timer, nextHandle, registrations, activeTimers, clears>>
    /\ UNCHANGED <<status, syncPending, themeVars, hookVars, eCountCell, eCount,
                   timeCell, time, eDirty, now, eRenders, changedRenders, callbackRuns,
                   clicks>>
    /\ UNCHANGED outside

\* The tree is removed: the timer effect's cleanup runs, pending updates are
\* dropped with the components.
Unmount ==
    /\ status = "mounted"
    /\ ~syncPending
    /\ pendingEffects = {}
    /\ status' = "unmounted"
    /\ IF timer # 0
       THEN /\ activeTimers' = ClearInterval(activeTimers, timer)
            /\ clears' = clears + 1
       ELSE UNCHANGED <<activeTimers, clears>>
    /\ themeDirty' = FALSE /\ hDirty' = FALSE /\ eDirty' = FALSE
    /\ UNCHANGED <<syncPending, isDarkCell, isDark, appIsDark, themeIsDark, toggles,
                   hookArg, mountArg, countCell, count, initialValue, ops, log, calls,
                   eCountCell, eCount, timeCell, time, now, pendingEffects, title,
                   timer, nextHandle, eRenders, changedRenders, titleWrites, logRuns,
                   registrations, callbackRuns, clicks>>
    /\ UNCHANGED outside

\* The interval callback, were it to count as well: setCount(count + 1).
TimerTick_counts ==
    /\ activeTimers # {}
    /\ ~syncPending
    /\ callbackRuns < MaxTicks
    /\ callbackRuns' = callbackRuns + 1
    /\ now' = now + 1
    /\ IF status = "mounted"
       THEN timeCell' = NewDate(now + 1) /\ eCountCell' = eCount + 1 /\ eDirty' = TRUE
       ELSE UNCHANGED <<timeCell, eCountCell, eDirty>>
    /\ UNCHANGED <<status, syncPending, themeVars, hookVars, eCount, time,
                   pendingEffects, title, timer, activeTimers, nextHandle, eRenders,
                   changedRenders, titleWrites, logRuns, registrations, clears, clicks>>
    /\ UNCHANGED outside

\* The interval callback of an active interval: setTime(new Date()).  A
\* setter of a component that is no longer mounted changes nothing.
TimerTick ==
    /\ activeTimers # {}
    /\ ~syncPending
    /\ callbackRuns < MaxTicks
    /\ callbackRuns' = callbackRuns + 1
    /\ now' = now + 1
    /\ IF status = "mounted"
       THEN timeCell' = NewDate(now + 1) /\ eDirty' = TRUE
       ELSE UNCHANGED <<timeCell, eDirty>>
    /\ UNCHANGED <<status, syncPending, themeVars, hookVars, eCountCell, eCount, time,
                   pendingEffects, title, timer, activeTimers, nextHandle, eRenders,
                   changedRenders, titleWrites, logRuns, registrations, clears, clicks>>
    /\ UNCHANGED outside

\* EffectExample's Increment button: setCount(count + 1).
ClickIncrement ==
    /\ status = "mounted"
    /\ ~syncPending
    /\ clicks < MaxClicks
    /\ clicks' = clicks + 1
    /\ eCountCell' = eCount + 1
    /\ eDirty' = TRUE
    /\ syncPending' = TRUE
    /\ UNCHANGED <<status, themeVars, hookVars, eCount, timeCell, time, now,
                   pendingEffects, title, timer, activeTimers, nextHandle, eRenders,
                   changedRenders, titleWrites, logRuns, registrations, clears,
                   callbackRuns>>
    /\ UNCHANGED outside

\* ThemeExample's Toggle Theme button: toggleTheme().
ClickToggleTheme ==
    /\ status = "mounted"
    /\ ~syncPending
    /\ toggles < MaxToggles
    /\ toggles' = toggles + 1
    /\ isDarkCell' = toggleTheme(isDark)
    /\ themeDirty' = TRUE
    /\ syncPending' = TRUE
    /\ UNCHANGED <<status, isDark, appIsDark, themeIsDark, hookVars, effectVars>>
    /\ UNCHANGED outside

\* One call of a useCounter operation through the latest render's closures.
HookCall(op) ==
    /\ status = "mounted"
    /\ calls < MaxCalls
    /\ calls' = calls + 1
    /\ countCell' = Apply(op, count, initialValue)
    /\ hDirty' = TRUE
    /\ ops' = Append(ops, op)
    /\ log' = Window(Append(log, [op |-> op, from |-> countCell]))
    /\ UNCHANGED <<status, themeVars, hookArg, mountArg, count, initialValue,
                   effectVars>>
    /\ UNCHANGED outside

\* CustomHookExample's +, - and Reset buttons: a click runs one operation and
\* React re-renders before the next event is handled.
ClickCounter(op) ==
    /\ ~syncPending
    /\ syncPending' = TRUE
    /\ HookCall(op)

\* A further operation called by the same handler, before the re-render.
BatchedCall(op) ==
    /\ syncPending
    /\ ops # <<>>
    /\ UNCHANGED syncPending
    /\ HookCall(op)

\* The owner re-renders and calls useCounter with another argument.
RenderWithArg(a) ==
    /\ status = "mounted"
    /\ ~syncPending
    /\ a # hookArg
    /\ hookArg' = a
    /\ hDirty' = TRUE
    /\ UNCHANGED <<status, syncPending, themeVars, mountArg, countCell, count,
                   initialValue, ops, log, calls, effectVars>>
    /\ UNCHANGED outside

\* ThemeExample or AppContent is rendered with no ThemeProvider above it.
RenderOutside(c) ==
    /\ outside' = ConsumerRender(c, useTheme(FALSE, ProviderValue(isDarkCell)))
    /\ UNCHANGED <<status, syncPending, themeVars, hookVars, effectVars>>

Next ==
    \/ Mount
    \/ Render
    \/ FlushEffects
    \/ Unmount
    \/ TimerTick
    \/ ClickIncrement
    \/ ClickToggleTheme
    \/ \E op \in Ops : ClickCounter(op)

\* The app as written: every handler is a click handler that calls one
\* operation, and the owner always passes the same argument.
Spec == Init /\ [][Next]_vars

\* useCounter used by a handler that calls several operations.
NextBatch == Next \/ \E op \in Ops : BatchedCall(op)
SpecBatch == Init /\ [][NextBatch]_vars

\* useCounter used by an owner whose argument changes between renders.
NextArg == Next \/ \E a \in InitialValues : RenderWithArg(a)
SpecArg == Init /\ [][NextArg]_vars

\* The app under the scheduling of its host: the browser runs the callback
\* of an active interval, and React runs a scheduled render pass and the
\* pending passive effects, each once it stays possible.
SpecFair ==
    /\ Init /\ [][Next]_vars
    /\ WF_vars(TimerTick) /\ WF_vars(Render) /\ WF_vars(FlushEffects)

\* A tree in which a consumer is also rendered outside the provider.
NextOutside == Next \/ \E c \in Consumers : RenderOutside(c)
SpecOutside == Init /\ [][NextOutside]_vars

\* ------------------------------------------------------------- claims
LastCall == log[Len(log)]

\* C1: whatever increment and decrement calls came before (each followed by
\* its re-render), after a reset call the counter cell holds the initial
\* value n, and the render that follows shows n.
C1_ResetRestoresInitial ==
    (log # <<>> /\ LastCall.op = "reset")
        => /\ countCell = mountArg
           /\ (status = "mounted" /\ ~hDirty) => count = mountArg

C1_Witness ==
    /\ status = "mounted" /\ ~hDirty /\ calls = 3
    /\ Len(log) = 2 /\ log[1].op = "decrement" /\ log[2].op = "reset"
    /\ log[2].from # mountArg
    /\ count = mountArg

\* C2: when the last two calls are increment then decrement, or decrement
\* then increment, the counter is back at the value v it had before the first
\* of the two.
C2_IncDecRoundTrip ==
    (/\ Len(log) = 2
     /\ \/ log[1].op = "increment" /\ log[2].op = "decrement"
        \/ log[1].op = "decrement" /\ log[2].op = "increment")
        => /\ countCell = log[1].from
           /\ (status = "mounted" /\ ~hDirty) => count = log[1].from

C2_Witness ==
    /\ status = "mounted" /\ ~hDirty /\ calls = 3
    /\ Len(log) = 2 /\ log[1].op = "decrement" /\ log[2].op = "increment"
    /\ log[1].from # mountArg
    /\ count = log[1].from

\* C3: k increment calls (or k decrement calls) made through the closures of
\* one render, with no re-render between them, leave the cell at v+k (v-k),
\* v being the value that render captured.
C3_BatchedCallsAccumulate ==
    /\ (ops # <<>> /\ \A i \in 1..Len(ops) : ops[i] = "increment")
          => countCell = count + Len(ops)
    /\ (ops # <<>> /\ \A i \in 1..Len(ops) : ops[i] = "decrement")
          => countCell = count - Len(ops)

\* C4: reset restores the value the hook was given at its first render,
\* whatever argument later renders pass.
C4_ResetRestoresMountValue ==
    (log # <<>> /\ LastCall.op = "reset") => countCell = mountArg

\* C5: at most one interval is active; no interval is cleared while
\* EffectExample is mounted; once it is unmounted exactly one clearInterval
\* has run and no interval is left.
C5_OneTimerClearedOnce ==
    /\ Cardinality(activeTimers) <= 1
    /\ status # "unmounted" => clears = 0
    /\ status = "unmounted" => (clears = 1 /\ activeTimers = {})

C5_Witness ==
    /\ status = "unmounted" /\ clears = 1 /\ registrations = 1
    /\ callbackRuns >= 1 /\ clicks >= 1

\* C6: once EffectExample is unmounted no interval is active, the interval
\* callback never runs again and the time value never changes again.
C6_NoTickAfterUnmount ==
    /\ [](status = "unmounted" => activeTimers = {})
    /\ [][status = "unmounted" =>
            /\ callbackRuns' = callbackRuns
            /\ timeCell' = timeCell
            /\ time' = time]_vars

C6_Witness ==
    /\ status = "unmounted"
    /\ callbackRuns = 1 /\ callbackRuns < MaxTicks
    /\ timeCell # time
    /\ clicks >= 1

\* C7: setInterval is called once, by the effects of the first render; no
\* re-render schedules the timer effect again or runs its cleanup.
FirstEffectsDone == eRenders > 1 \/ (eRenders = 1 /\ pendingEffects = {})

C7_TimerRegisteredOnce ==
    /\ registrations <= 1
    /\ eRenders > 1 => "timer" \notin pendingEffects
    /\ (status = "mounted" /\ FirstEffectsDone)
          => /\ registrations = 1
             /\ clears = 0
             /\ timer = 1
             /\ activeTimers = {timer}

C7_Witness ==
    /\ status = "mounted" /\ pendingEffects = {}
    /\ ~eDirty /\ ~themeDirty
    /\ callbackRuns >= 1 /\ clicks >= 1 /\ toggles >= 1
    /\ eRenders >= 4
    /\ registrations = 1 /\ clears = 0

\* C8: the title effect has run once for every committed render of
\* EffectExample, the latest render's run pending until its effects are
\* flushed; renders caused by timer ticks count like any other.
C8_TitleEffectEveryRender ==
    titleWrites + (IF "title" \in pendingEffects THEN 1 ELSE 0) = eRenders

C8_Witness ==
    /\ clicks = 0 /\ toggles = 0 /\ calls = 0
    /\ callbackRuns = 2 /\ eRenders = 3
    /\ pendingEffects = {}
    /\ titleWrites = 3

\* C9: the logging effect has run once for the mount and once for every
\* re-render whose count differs from the previous render's (the latest
\* run pending until the effects are flushed), and running the effects
\* changes no state cell and schedules no render.
C9_LogEffectOnCountChange ==
    /\ [](logRuns + (IF "log" \in pendingEffects THEN 1 ELSE 0)
            = (IF eRenders = 0 THEN 0 ELSE 1 + changedRenders))
    /\ [][(pendingEffects # {} /\ pendingEffects' = {})
            => UNCHANGED <<eCountCell, timeCell, countCell, isDarkCell,
                           eDirty, hDirty, themeDirty>>]_vars

C9_Witness ==
    /\ status = "mounted" /\ pendingEffects = {}
    /\ callbackRuns = 2 /\ clicks = 1 /\ ~eDirty
    /\ eRenders >= 4
    /\ changedRenders = 1
    /\ logRuns = 2

\* C10: isDark is the initial value after an even number of toggleTheme
\* calls and its negation after an odd number, and once the render that
\* follows a toggle is committed the provider, AppContent and ThemeExample
\* all hold the new value.
C10_ToggleTwiceAndObserved ==
    /\ isDarkCell = (toggles % 2 = 1)
    /\ (status = "mounted" /\ ~themeDirty)
          => /\ isDark = isDarkCell
             /\ appIsDark = isDarkCell
             /\ themeIsDark = isDarkCell

C10_Witness ==
    /\ status = "mounted" /\ ~themeDirty
    /\ toggles = 2
    /\ isDarkCell = FALSE /\ appIsDark = FALSE /\ themeIsDark = FALSE

\* C11: a consumer rendered with no ThemeProvider above it ends its render
\* with a TypeError at the useTheme read and shows nothing; it never renders
\* with a missing or default theme.
C11_OutsideProviderThrows ==
    outside.consumer # "none"
        => /\ outside.outcome = "TypeError"
           /\ outside.shown = "nothing"

C11_Witness ==
    /\ outside.consumer = "ThemeExample"
    /\ outside.outcome = "TypeError"
    /\ status = "mounted" /\ isDark = TRUE

\* C12: the count cell changes only in a step that is a click of the
\* Increment button; a run of the interval callback leaves the count alone
\* and puts a new Date in the time cell; a click sets the count to the
\* rendered count plus one and leaves the time and the interval alone.
C12_CountOnlyByButton ==
    [][/\ (eCountCell' # eCountCell) => (clicks' = clicks + 1)
       /\ (callbackRuns' # callbackRuns)
             => /\ eCountCell' = eCountCell /\ eCount' = eCount
                /\ status = "mounted"
                      => (timeCell' = NewDate(now') /\ timeCell' # timeCell)
       /\ (clicks' # clicks)
             => /\ eCountCell' = eCount + 1
                /\ timeCell' = timeCell /\ time' = time
                /\ UNCHANGED <<timer, activeTimers, nextHandle, registrations,
                               clears>>]_vars

C12_Witness ==
    /\ status = "mounted"
    /\ clicks = 2 /\ callbackRuns = 2
    /\ eCountCell = 2 /\ timeCell = NewDate(2)
    /\ registrations = 1 /\ activeTimers = {timer}

\* C13: the isDark cell changes only in a step that is a toggleTheme call,
\* and the isDark the components show changes only in the render pass that
\* follows one; calls of the counter's operations, clicks of Increment and
\* runs of the interval callback leave isDark alone; a toggleTheme call and
\* the render pass that follows it leave both counters and the interval
\* alone.
ThemeRender == themeDirty /\ ~themeDirty' /\ status' = "mounted"

C13_ThemeOnlyByToggle ==
    [][/\ (isDarkCell' # isDarkCell) => (toggles' = toggles + 1)
       /\ (isDark' # isDark \/ appIsDark' # appIsDark \/ themeIsDark' # themeIsDark)
             => ThemeRender
       /\ (calls' # calls \/ clicks' # clicks \/ callbackRuns' # callbackRuns)
             => UNCHANGED <<isDarkCell, isDark, appIsDark, themeIsDark>>
       /\ (toggles' # toggles)
             => UNCHANGED <<countCell, count, eCountCell, eCount, timer,
                            activeTimers, registrations, clears>>
       /\ ThemeRender
             => UNCHANGED <<countCell, eCountCell, timer, activeTimers,
                            registrations, clears>>]_vars

C13_Witness ==
    /\ status = "mounted" /\ ~themeDirty /\ pendingEffects = {}
    /\ toggles = 1 /\ isDark = TRUE /\ appIsDark = TRUE
    /\ calls >= 1 /\ countCell # mountArg /\ count = countCell
    /\ clicks >= 1 /\ eCount = clicks
    /\ callbackRuns >= 1
    /\ registrations = 1 /\ clears = 0

\* C14: while EffectExample is mounted and no effect of its latest render is
\* pending, document.title is "Count: " followed by the count that render
\* captured.
C14_TitleShowsLatestCount ==
    (status = "mounted" /\ pendingEffects = {})
        => title = "Count: " \o ToString(eCount)

C14_Witness ==
    /\ status = "mounted" /\ pendingEffects = {}
    /\ eCount = 2 /\ title = "Count: 2"
    /\ callbackRuns >= 1 /\ toggles >= 1

C16_NoLostClick ==
    /\ eCountCell = clicks
    /\ IF syncPending /\ eCountCell # eCount
       THEN eCount = clicks - 1
       ELSE eCount = clicks

C16_Witness ==
    /\ status = "mounted" /\ ~syncPending
    /\ clicks = 2 /\ eCount = 2
    /\ callbackRuns = 2 /\ toggles = 2
    /\ timeCell # time

====
